---- MODULE Spec2Model ----
(***************************************************************************)
(* A model of scraper_editais.py: the deduplicating store (table editais,  *)
(* table config), the date helpers the store and the collector share, the  *)
(* blocking collector coletar_pdf_first and the streaming collector        *)
(* coletar_stream.generate, run as two concurrent requests against one     *)
(* SQLite file.                                                            *)
(*                                                                         *)
(* Strings are modelled as sequences of tokens (a token is a word or one   *)
(* whitespace character), date-shaped substrings as records of their day,  *)
(* month, year and separator, and the SHA-256 of a key as the key itself   *)
(* (no collisions).                                                        *)
(***************************************************************************)
EXTENDS Integers, Sequences, FiniteSets, TLC

\* Python's None, one value for each type it stands in for.
NoTitle == <<"None">>
NoLink == "NoLink"

(* ------------------------------ bounds -------------------------------- *)

\* Half-days the clock may advance past Epoch.
MaxNow == 1
\* Collection runs that may be started in one behaviour.
MaxRuns == 2
\* The sequential caller stops calling salvar once editais.id has passed this.
MaxId == 3

(* ------------------------- program constants -------------------------- *)

\* MAX_PER_SOURCE, the default of max_per_source; scaled down from 40 so that
\* a listing page can hold more candidates than the cap.
MAX_PER_SOURCE == 1

(* ------------------------------ strings ------------------------------- *)

SP == "sp"
TAB == "tab"
Whitespace == {SP, TAB}

RECURSIVE lstrip(_)
lstrip(s) ==
    IF s # <<>> /\ Head(s) \in Whitespace THEN lstrip(Tail(s)) ELSE s

RECURSIVE join_split(_)
\* " ".join(s.split()) for s without leading whitespace
join_split(s) ==
    IF s = <<>> THEN <<>>
    ELSE IF Head(s) \in Whitespace
         THEN LET r == lstrip(s) IN
              IF r = <<>> THEN <<>> ELSE <<SP>> \o join_split(r)
         ELSE <<Head(s)>> \o join_split(Tail(s))

normalize_text(s) ==
    IF s = NoTitle THEN NoTitle ELSE join_split(lstrip(s))

\* Python's "x or y" for a string x that may be None or empty
Or(x, y) == IF x = NoTitle \/ x = <<>> THEN y ELSE x

\* not link or link.strip() == ""
IsBlankLink(link) == link \in {NoLink, "", " "}

\* The key whose SHA-256 is the fingerprint.
make_fingerprint(link, title) ==
    Or(normalize_text(title), <<>>) \o <<"||">> \o <<IF link = NoLink THEN "" ELSE link>>

(* ------------------------------- dates -------------------------------- *)

IsLeap(y) == (y % 4 = 0 /\ y % 100 # 0) \/ y % 400 = 0

DaysInMonth(y, m) ==
    CASE m \in {1, 3, 5, 7, 8, 10, 12} -> 31
      [] m \in {4, 6, 9, 11} -> 30
      [] OTHER -> IF IsLeap(y) THEN 29 ELSE 28

RECURSIVE DaysBeforeMonth(_, _)
DaysBeforeMonth(y, m) ==
    IF m <= 1 THEN 0 ELSE DaysBeforeMonth(y, m - 1) + DaysInMonth(y, m - 1)

\* datetime(y, m, d).toordinal()
ToOrdinal(y, m, d) ==
    LET p == y - 1 IN
    365 * p + (p \div 4) - (p \div 100) + (p \div 400) + DaysBeforeMonth(y, m) + d

\* datetime(year, month, day) raises ValueError outside these ranges
ValidDate(y, m, d) ==
    /\ y \in 1..9999
    /\ m \in 1..12
    /\ d \in 1..DaysInMonth(y, m)

\* A date-shaped substring D<sep>M<sep>Y as DATE_RE finds it.
DateStr(d, m, y, sep) == [d |-> d, m |-> m, y |-> y, sep |-> sep]

ExpandYear(y) == IF y < 100 THEN (IF y < 50 THEN y + 2000 ELSE y + 1900) ELSE y

\* No date-shaped substring (prazo = None).
NoDate == DateStr(0, 0, 0, "None")

\* parse_brazilian_date's None; a parsed datetime has an ordinal of 1 or more.
Unparsed == 0

\* The parsed datetime (midnight of a day) as its ordinal, or Unparsed.
parse_brazilian_date(date_str) ==
    IF date_str = NoDate THEN Unparsed
    ELSE IF date_str.sep \notin {"/", "-", "."} THEN Unparsed
    ELSE LET year == ExpandYear(date_str.y) IN
         IF ValidDate(year, date_str.m, date_str.d)
         THEN ToOrdinal(year, date_str.m, date_str.d)
         ELSE Unparsed

\* now = 0 is 05/06/2030 00:00.
EpochOrd == ToOrdinal(2030, 6, 5)

\* Faulty variant: a date that does not parse counts as expired.
is_date_future_strict(date_str, t) ==
    LET dt == parse_brazilian_date(date_str) IN
    IF dt # Unparsed /\ 2 * dt >= (2 * EpochOrd + t) - 2 THEN "True" ELSE "False"

\* dt >= datetime.now() - timedelta(days=1), dt a midnight, in half-days
is_date_future_at(date_str, t) ==
    LET dt == parse_brazilian_date(date_str) IN
    IF dt = Unparsed THEN "None"
    ELSE IF 2 * dt >= (2 * EpochOrd + t) - 2 THEN "True" ELSE "False"

(* ---------------------------- PDF -> text ----------------------------- *)

\* len() of one token
TokLen(tok) ==
    CASE tok \in Whitespace -> 1
      [] tok = "nº" -> 2
      [] tok = "ata" -> 3
      [] tok = "data" -> 4
      [] tok \in {"edital", "manual", "fapesp"} -> 6
      [] tok \in {"chamada", "12/2024"} -> 7
      [] tok = "pesquisa" -> 8
      [] tok = "nº12/2024" -> 9
      [] OTHER -> 5

RECURSIVE StrLen(_)
StrLen(s) == IF s = <<>> THEN 0 ELSE TokLen(Head(s)) + StrLen(Tail(s))

RECURSIVE rstrip(_)
rstrip(s) ==
    IF s # <<>> /\ s[Len(s)] \in Whitespace THEN rstrip(SubSeq(s, 1, Len(s) - 1)) ELSE s

strip(s) == rstrip(lstrip(s))

\* The vocabulary words that occur inside a token, as substrings.
Subwords(tok) ==
    CASE tok = "data" -> {"data", "ata"}
      [] tok = "nº12/2024" -> {"nº12/2024", "nº", "12/2024"}
      [] OTHER -> {tok}

\* word in s.lower(), for a word of the vocabulary
InStr(word, s) == \E i \in 1..Len(s) : word \in Subwords(s[i])

\* A text no page of which yielded anything: "".
EmptyText ==
    [len |-> 0, lines |-> <<>>, dates |-> <<>>, words |-> 0, first1000 |-> {},
     first2000 |-> {},
     brl |-> "None", fx |-> "None", pub |-> <<>>, head_dates |-> <<>>]

GENERIC_TITLES ==
    {<<"chamada">>, <<"chamadas">>, <<"edital">>, <<"acesse aqui">>, <<"saiba mais">>,
     <<"resultado">>, <<"call">>}

SetMin(S) == CHOOSE x \in S : \A y \in S : x <= y

extract_first_title_from_text(text) ==
    IF text.len = 0 \/ text.lines = <<>> THEN NoTitle
    ELSE LET lines == text.lines
             good == {i \in 1..Len(lines) :
                         i <= 12 /\ StrLen(lines[i]) > 6 /\ lines[i] \notin GENERIC_TITLES}
         IN IF good # {} THEN lines[SetMin(good)] ELSE lines[1]

\* Number of " " in a normalized title.
CountSp(s) == Cardinality({i \in 1..Len(s) : s[i] = SP})

RECURSIVE Prefix(_, _)
\* The longest prefix of whole tokens within n characters.
Prefix(s, n) ==
    IF s = <<>> \/ TokLen(Head(s)) > n THEN <<>>
    ELSE <<Head(s)>> \o Prefix(Tail(s), n - TokLen(Head(s)))

clean_title(titulo) ==
    IF titulo = NoTitle \/ titulo = <<>> THEN NoTitle
    ELSE LET t == join_split(lstrip(titulo)) IN
         IF StrLen(t) > 300 /\ CountSp(t) > 50 THEN Prefix(t, 150) \o <<"...">> ELSE t

\* Faulty variant: the first future date in text order, the list left unsorted.
extract_prazo_text_order(text, t) ==
    LET dates_found == text.dates
        future == {i \in 1..Len(dates_found) :
                      /\ parse_brazilian_date(dates_found[i]) # Unparsed
                      /\ is_date_future_at(dates_found[i], t) = "True"}
    IN IF text.len = 0 THEN NoDate
       ELSE IF future # {} THEN dates_found[SetMin(future)]
       ELSE IF dates_found # <<>> THEN dates_found[Len(dates_found)]
       ELSE NoDate

\* The deadline extract_prazo_and_valor returns, with the clock at t.
extract_prazo_at(text, t) ==
    LET dates_found == text.dates
        future == {i \in 1..Len(dates_found) :
                      /\ parse_brazilian_date(dates_found[i]) # Unparsed
                      /\ is_date_future_at(dates_found[i], t) = "True"}
        \* the stable sort by parsed date puts this one first
        first == CHOOSE i \in future : \A j \in future :
                    \/ parse_brazilian_date(dates_found[i]) < parse_brazilian_date(dates_found[j])
                    \/ /\ parse_brazilian_date(dates_found[i]) = parse_brazilian_date(dates_found[j])
                       /\ i <= j
    IN IF text.len = 0 THEN NoDate
       ELSE IF future # {} THEN dates_found[first]
       ELSE IF dates_found # <<>> THEN dates_found[Len(dates_found)]
       ELSE NoDate

\* The amount extract_prazo_and_valor returns.
extract_valor(text) ==
    IF text.len = 0 THEN "None"
    ELSE IF text.brl # "None" THEN text.brl
    ELSE text.fx

extract_data_publicacao(text) ==
    IF text.len = 0 THEN NoDate
    ELSE LET labelled == {i \in 1..Len(text.pub) :
                             parse_brazilian_date(text.pub[i]) # Unparsed}
             generic == {i \in 1..Len(text.head_dates) :
                            i <= 3 /\ parse_brazilian_date(text.head_dates[i]) # Unparsed}
         IN IF labelled # {} THEN text.pub[SetMin(labelled)]
            ELSE IF generic # {} THEN text.head_dates[SetMin(generic)]
            ELSE NoDate

(* ----------------------------- classifier ----------------------------- *)

EDITAL_KEYWORDS_REQUIRED ==
    {"edital", "chamada", "call", "convocatória", "seleção", "programa", "auxílio",
     "bolsa", "fomento", "pesquisa"}

BLACKLIST_KEYWORDS ==
    {"manual", "instruções", "tutorial", "declaração de imposto",
     "indicadores institucionais", "relatório", "ata", "prestação de contas",
     "resultado preliminar", "homologação", "retificação", "errata", "como acessar",
     "passo a passo", "orientações", "formulário", "www.", "http://", "https://",
     "obedecendo determinação"}

\* re.search(r'n[ºº]\s*\d+/\d{4}', titulo_lower)
has_number_pattern(titulo) ==
    \E i \in 1..Len(titulo) :
        \/ titulo[i] = "nº12/2024"
        \/ /\ titulo[i] = "nº"
           /\ \E j \in (i + 1)..Len(titulo) :
                  /\ titulo[j] = "12/2024"
                  /\ \A k \in (i + 1)..(j - 1) : titulo[k] \in Whitespace

\* Faulty variant: a procedural term in the text counts 2.
edital_score_text(titulo, texto) ==
    (IF has_number_pattern(titulo) THEN 3 ELSE 0)
    + (IF InStr("edital", titulo) \/ InStr("chamada", titulo) THEN 2 ELSE 0)
    + (IF texto.first1000 \cap {"prazo", "submissão", "inscrição", "cronograma"} # {}
       THEN 2 ELSE 0)
    + (IF "r$" \in texto.first2000 THEN 1 ELSE 0)

\* Faulty variant: every signal adds one.
edital_score_flat(titulo, texto) ==
    (IF has_number_pattern(titulo) THEN 1 ELSE 0)
    + (IF InStr("edital", titulo) \/ InStr("chamada", titulo) THEN 1 ELSE 0)
    + (IF texto.first1000 \cap {"prazo", "submissão", "inscrição", "cronograma"} # {}
       THEN 1 ELSE 0)
    + (IF "r$" \in texto.first2000 THEN 1 ELSE 0)

edital_score(titulo, texto) ==
    (IF has_number_pattern(titulo) THEN 3 ELSE 0)
    + (IF InStr("edital", titulo) \/ InStr("chamada", titulo) THEN 2 ELSE 0)
    + (IF texto.first1000 \cap {"prazo", "submissão", "inscrição", "cronograma"} # {}
       THEN 1 ELSE 0)
    + (IF "r$" \in texto.first2000 THEN 1 ELSE 0)

is_likely_edital(titulo, texto) ==
    IF titulo = NoTitle \/ titulo = <<>> THEN FALSE
    ELSE IF \E palavra \in BLACKLIST_KEYWORDS :
                InStr(palavra, titulo) \/ palavra \in texto.first1000 THEN FALSE
    ELSE IF StrLen(strip(titulo)) < 10 THEN FALSE
    ELSE IF strip(titulo) \in {<<"chamada">>, <<"edital">>, <<"www.">>, <<"governo">>,
                               <<"fundação">>} THEN FALSE
    ELSE IF ~\E kw \in EDITAL_KEYWORDS_REQUIRED :
                InStr(kw, titulo) \/ kw \in texto.first2000 THEN FALSE
    ELSE IF texto.len # 0 /\ texto.words < 500 THEN FALSE
    ELSE edital_score(titulo, texto) >= 3

(* ---------------------------- HTML analysis --------------------------- *)

\* An <a href> of a page: href_pdf is href.lower().endswith(".pdf"), href_q is
\* '?' in href and 'pdf' in href.lower(), full the resolved URL, http is
\* full.startswith("http"), text the visible text, key is
\* full.split("#")[0].rstrip("/"), block says the anchor lies in one of the
\* content containers, href_words are the keywords found in full.lower().
Anchor(href_pdf, href_q, full, http, text, key, block, href_words) ==
    [href_pdf |-> href_pdf, href_q |-> href_q, full |-> full, http |-> http,
     text |-> text, key |-> key, block |-> block, href_words |-> href_words]

\* unquote(os.path.basename(urlparse(u).path)), <<>> for an empty path
filename_from_url(u) ==
    CASE u = "http://a/1.pdf" -> <<"1.pdf">>
      [] u = "http://a/2.pdf" -> <<"2.pdf">>
      [] u = "http://a/3.pdf" -> <<"3.pdf">>
      [] u \in {"http://b/edital1", "http://b/edital1#top"} -> <<"edital1">>
      [] u = "http://b/chamada2" -> <<"chamada2">>
      [] u = "http://b/edital3" -> <<"edital3">>
      [] u = "http://b/sobre" -> <<"sobre">>
      [] OTHER -> <<>>

\* full.lower().endswith(".pdf")
EndsWithPdf(u) == u \in {"http://a/1.pdf", "http://a/2.pdf", "http://a/3.pdf"}

\* full.split("#")[0].rstrip("/")
url_key(u) ==
    CASE u \in {"http://b/edital1#top", "http://b/edital1/"} -> "http://b/edital1"
      [] OTHER -> u

\* The pair (full, title) the scans append.
LinkOf(a) == [url |-> a.full, text |-> Or(a.text, Or(filename_from_url(a.full), <<>>))]

InSeq(x, s) == \E i \in 1..Len(s) : s[i] = x

RECURSIVE pdf_suffix_links(_)
\* the first loop of find_pdf_links_on_page
pdf_suffix_links(html) ==
    IF html = <<>> THEN <<>>
    ELSE LET a == html[Len(html)]
             links == pdf_suffix_links(SubSeq(html, 1, Len(html) - 1))
         IN IF a.href_pdf /\ a.http THEN Append(links, LinkOf(a)) ELSE links

RECURSIVE pdf_query_links(_, _)
\* the second loop of find_pdf_links_on_page, started with the first loop's links
pdf_query_links(html, links0) ==
    IF html = <<>> THEN links0
    ELSE LET a == html[Len(html)]
             links == pdf_query_links(SubSeq(html, 1, Len(html) - 1), links0)
         IN IF a.href_q /\ ~InSeq(LinkOf(a), links) /\ a.http
            THEN Append(links, LinkOf(a)) ELSE links

find_pdf_links_on_page(html) == pdf_query_links(html, pdf_suffix_links(html))

\* any(k in lowtxt ...) or any(k.replace(" ", "") in lowhref ...)
keyword_hit(a, keywords) ==
    \/ \E k \in keywords : InStr(k, a.text)
    \/ a.href_words \cap keywords # {}

RECURSIVE block_scan(_, _)
\* The scan of the content containers: <<candidates, seen>>.
block_scan(html, keywords) ==
    IF html = <<>> THEN <<(<<>>), {}>>
    ELSE LET a == html[Len(html)]
             r == block_scan(SubSeq(html, 1, Len(html) - 1), keywords)
         IN IF ~a.block \/ ~a.http \/ a.key \in r[2] THEN r
            ELSE <<IF keyword_hit(a, keywords) THEN Append(r[1], LinkOf(a)) ELSE r[1],
                   r[2] \cup {a.key}>>

RECURSIVE page_scan(_, _)
\* The scan of the whole page, used when the containers yield nothing.
page_scan(html, keywords) ==
    IF html = <<>> THEN <<>>
    ELSE LET a == html[Len(html)]
             r == page_scan(SubSeq(html, 1, Len(html) - 1), keywords)
         IN IF a.http /\ keyword_hit(a, keywords) THEN Append(r, LinkOf(a)) ELSE r

find_candidate_links_by_keywords(html, keywords) ==
    LET candidates == block_scan(html, keywords)[1] IN
    IF candidates # <<>> THEN candidates ELSE page_scan(html, keywords)

(* ------------------------- the configured web ------------------------- *)

SOURCES ==
    << [url |-> "http://a/", fonte |-> "CNPq",
        keywords |-> {"edital", "chamada", "chamadas", "call"}],
       [url |-> "http://b/", fonte |-> "CAPES", keywords |-> {"edital", "chamada"}] >>

Dearly == DateStr(4, 6, 2030, "/")
Dlate == DateStr(6, 6, 30, "-")
Dpast == DateStr(10, 1, 2020, "/")
Dbad == DateStr(31, 2, 2030, "/")

\* What r.text of a successful GET of a listing page parses to.
Listing(url) ==
    IF url = "http://a/"
    THEN << Anchor(TRUE, FALSE, "http://a/1.pdf", TRUE, <<"edital", SP, "nº12/2024">>,
                   "http://a/1.pdf", TRUE, {"edital"}),
            Anchor(TRUE, FALSE, "http://a/3.pdf", TRUE, <<>>,
                   "http://a/3.pdf", FALSE, {}) >>
    ELSE << Anchor(FALSE, FALSE, "http://b/edital1", TRUE, <<"edital", SP, "fapesp">>,
                   "http://b/edital1", TRUE, {"edital"}),
            Anchor(FALSE, FALSE, "http://b/edital1#top", TRUE, <<"edital", SP, "fapesp">>,
                   "http://b/edital1", TRUE, {"edital"}),
            Anchor(FALSE, FALSE, "http://b/chamada2", TRUE, <<"chamada">>,
                   "http://b/chamada2", TRUE, {"chamada"}),
            Anchor(FALSE, FALSE, "http://b/sobre", TRUE, <<"fapesp">>,
                   "http://b/sobre", TRUE, {}) >>

CallText(lines, dates) ==
    [len |-> 4000, lines |-> lines, dates |-> dates, words |-> 600,
     first1000 |-> {"edital", "prazo"}, first2000 |-> {"edital", "prazo", "r$"},
     brl |-> "R$ 50.000,00", fx |-> "None", pub |-> <<>>, head_dates |-> dates]

\* What extract_text_from_pdf_bytes yields for the PDF behind a URL.
PdfText(url) ==
    CASE url = "http://a/1.pdf" ->
            CallText(<< <<"edital", SP, SP, "nº12/2024">> >>, <<Dlate, Dearly>>)
      [] url = "http://a/2.pdf" ->
            [CallText(<< <<"manual", SP, "fapesp">> >>, <<>>)
                EXCEPT !.first1000 = {"manual"}, !.first2000 = {"manual"}]
      [] url = "http://a/3.pdf" ->
            CallText(<< <<"edital">>, <<"chamada", SP, "pesquisa">> >>, <<Dearly, Dbad>>)
      [] url = "http://b/edital1" ->
            CallText(<< <<"edital", SP, "fapesp", SP, "nº", SP, "12/2024">> >>, <<Dpast>>)
      [] url = "http://b/chamada2" ->
            CallText(<< <<"chamada", TAB, "nº12/2024">> >>, <<>>)
      [] OTHER ->
            [EmptyText EXCEPT !.len = 3]

(* ------------------------------- state -------------------------------- *)

VARIABLES
    editais,        \* table editais: a set of rows
    next_id,        \* the AUTOINCREMENT counter of editais.id
    ultima_coleta,  \* config['ultima_coleta']: <<>> when absent, <<valor>> when set
    now,            \* datetime.now(), in half-days after Epoch
    pc,             \* where each collector, and a request for /limpar_banco, stands
    runs,           \* collection runs started so far
    cb,             \* coletar_pdf_first was given a progress_callback
    idx,            \* idx of coletar_pdf_first, i of generate
    pdfs, cand, ci, checked, pi, count, doc, results,
                    \* locals of each collector (results is novos in generate)
    events,         \* history: what each run's progress sink received
    fetched,        \* history: the sources whose listing page each run requested
    heads,          \* history: HEAD requests of each run for its current source
    gets,           \* history: PDF downloads of each run for its current source
    slept,          \* history: "start", or whether the run slept since its last download
    inserted,       \* history: successful INSERTs per link since the last limpar_banco
    race,           \* history: two overlapping salvar calls for one link
    hist            \* history: the salvar calls a sequential caller made in a row

vars == <<editais, next_id, ultima_coleta, now, pc, runs, cb, idx, pdfs, cand, ci,
          checked, pi, count, doc, results, events, fetched, heads, gets, slept,
          inserted, race, hist>>

\* is_date_future, read at the current clock.
is_date_future(date_str) == is_date_future_at(date_str, now)

(* ------------------------------- store -------------------------------- *)

exists_fp(fp) == \E r \in editais : r.fingerprint = fp

\* Faulty variant: the link column is not UNIQUE.
IntegrityError_fingerprint_only(link, fp) ==
    \E r \in editais : r.fingerprint = fp

\* Faulty variant: neither column is UNIQUE, the pre-check alone guards the table.
IntegrityError_never(link, fp) == FALSE

\* sqlite3.IntegrityError of the INSERT: link TEXT UNIQUE, fingerprint TEXT UNIQUE
IntegrityError(link, fp) ==
    \E r \in editais : r.link = link \/ r.fingerprint = fp

\* The row the INSERT statement of salvar adds for the dict d.
NewRow(d, fp) ==
    [id |-> next_id, titulo |-> d.titulo, agencia |-> d.agencia, prazo |-> d.prazo,
     valor |-> d.valor, link |-> d.link, fonte |-> d.fonte,
     data_publicacao |-> d.data_publicacao, fingerprint |-> fp]

\* Faulty variant: the except branch falls through to "return True".
insert_returns_true(link, fp) == TRUE

\* The value salvar returns once it has run its INSERT.
insert_returns(link, fp) == ~IntegrityError(link, fp)

\* Faulty variant: a conflicting INSERT overwrites the deadline of the stored row.
salvar_insert_update(d, fp, ret) ==
    /\ ret = insert_returns(d.link, fp)
    /\ IF IntegrityError(d.link, fp)
       THEN /\ editais' = {IF r.link = d.link THEN [r EXCEPT !.prazo = d.prazo] ELSE r :
                              r \in editais}
            /\ UNCHANGED <<next_id, inserted>>
       ELSE /\ editais' = editais \cup {NewRow(d, fp)}
            /\ next_id' = next_id + 1
            /\ inserted' = [inserted EXCEPT ![d.link] = @ + 1]

salvar_insert(d, fp, ret) ==
    /\ ret = insert_returns(d.link, fp)
    /\ IF IntegrityError(d.link, fp)
       THEN UNCHANGED <<editais, next_id, inserted>>
       ELSE /\ editais' = editais \cup {NewRow(d, fp)}
            /\ next_id' = next_id + 1
            /\ inserted' = [inserted EXCEPT ![d.link] = @ + 1]

\* What salvar does before the INSERT: "reject" (empty link), "exists"
\* (fingerprint found), or "insert".
salvar_precheck(d) ==
    IF IsBlankLink(d.link) THEN "reject"
    ELSE IF exists_fp(make_fingerprint(d.link, d.titulo)) THEN "exists"
    ELSE "insert"

\* Faulty variant: a deadline that does not parse is deleted too.
vencidos_not_future ==
    {r \in editais : r.prazo # NoDate /\ is_date_future(r.prazo) # "True"}

\* limpar_vencidos: the rows it deletes.
vencidos ==
    {r \in editais : r.prazo # NoDate /\ is_date_future(r.prazo) = "False"}

\* limpar_vencidos: the number it reports, one per DELETE.
removidos == Cardinality(vencidos)

limpar_vencidos ==
    /\ editais' = editais \ vencidos
    /\ UNCHANGED <<next_id, ultima_coleta>>

\* limpar_banco's first transaction: DELETE FROM editais, commit.
delete_editais ==
    /\ editais' = {}
    /\ inserted' = [l \in DOMAIN inserted |-> 0]

\* limpar_banco's second transaction: DELETE FROM config WHERE chave =
\* 'ultima_coleta', commit.
delete_config == ultima_coleta' = <<>>

\* limpar_banco from its first statement to its last, no other request between.
limpar_banco ==
    /\ delete_editais
    /\ delete_config
    /\ UNCHANGED next_id

\* datetime.now().strftime("%d/%m/%Y às %H:%M"): the clock reading, to the minute
\* Faulty variant: INSERT OR IGNORE, the row of an earlier run stays.
set_ultima_coleta_ignore ==
    ultima_coleta' = IF ultima_coleta = <<>> THEN <<now>> ELSE ultima_coleta

\* INSERT OR REPLACE INTO config of the formatted datetime.now()
set_ultima_coleta == ultima_coleta' = <<now>>

(* ----------------------------- collectors ----------------------------- *)

\* "coletar" is coletar_pdf_first (the daily job, or GET /coletar), "stream" is
\* the generator of GET /coletar_stream; each runs in a thread of its own.
Procs == {"coletar", "stream"}

Other(p) == CHOOSE q \in Procs : q # p

total_sources == Len(SOURCES)

Doc(titulo, agencia, prazo, valor, link, fonte, data_publicacao) ==
    [titulo |-> titulo, agencia |-> agencia, prazo |-> prazo, valor |-> valor,
     link |-> link, fonte |-> fonte, data_publicacao |-> data_publicacao]

NoDoc == Doc(NoTitle, "None", NoDate, "None", NoLink, "None", NoDate)

NoRace == [link |-> NoLink, ret |-> [p \in Procs |-> "none"]]

\* Faulty variant: the index is reported zero-based.
progress_event_zero_based(current, total) ==
    [type |-> "progress", current |-> current - 1, total |-> total, novos |-> 0]

\* progress_callback(idx, total_sources); the "progress" message of generate
progress_event(current, total) ==
    [type |-> "progress", current |-> current, total |-> total, novos |-> 0]

\* the "complete" message of generate
complete_event(total, novos) ==
    [type |-> "complete", current |-> total, total |-> total, novos |-> novos]

Upd(f, p, v) == [f EXCEPT ![p] = v]

\* The locals of the loops over one source, as they are before the source.
ResetSource(p) ==
    /\ pdfs' = Upd(pdfs, p, <<>>)
    /\ cand' = Upd(cand, p, <<>>)
    /\ ci' = Upd(ci, p, 1)
    /\ checked' = Upd(checked, p, 0)
    /\ pi' = Upd(pi, p, 1)
    /\ count' = Upd(count, p, 0)
    /\ doc' = Upd(doc, p, NoDoc)
    /\ heads' = Upd(heads, p, 0)
    /\ gets' = Upd(gets, p, 0)

\* The loop over the sources moves on from source idx[p].
NextSource(p) ==
    /\ idx' = Upd(idx, p, idx[p] + 1)
    /\ pc' = Upd(pc, p, IF idx[p] + 1 > total_sources THEN "finish" ELSE "progress")
    /\ ResetSource(p)

\* A run starts: the locals of a fresh call.
StartRun(p) ==
    /\ pc[p] \in {"idle", "done", "raised"}
    /\ runs < MaxRuns
    /\ runs' = runs + 1
    /\ pc' = Upd(pc, p, IF total_sources = 0 THEN "finish" ELSE "progress")
    /\ idx' = Upd(idx, p, 1)
    /\ results' = Upd(results, p, <<>>)
    /\ events' = Upd(events, p, <<>>)
    /\ fetched' = Upd(fetched, p, {})
    /\ slept' = Upd(slept, p, "start")
    /\ ResetSource(p)
    /\ UNCHANGED <<editais, next_id, ultima_coleta, now, inserted, race, hist>>

\* requests.get of the listing page of source idx[p]; ok says it succeeded.
\* Strategy A, and the start of strategy B when A finds nothing.
FetchListing(p, ok) ==
    LET src == SOURCES[idx[p]]
        direct == find_pdf_links_on_page(Listing(src.url))
    IN /\ fetched' = Upd(fetched, p, fetched[p] \cup {idx[p]})
       /\ IF ~ok
          THEN NextSource(p)
          ELSE /\ pdfs' = Upd(pdfs, p, direct)
               /\ cand' = Upd(cand, p,
                               IF direct = <<>>
                               THEN find_candidate_links_by_keywords(Listing(src.url),
                                                                     src.keywords)
                               ELSE <<>>)
               /\ pc' = Upd(pc, p, IF direct = <<>> THEN "probe" ELSE "cand")
               /\ UNCHANGED <<idx, ci, checked, pi, count, doc, heads, gets>>
       /\ UNCHANGED <<editais, next_id, ultima_coleta, now, runs, cb, results, events,
                      slept, inserted, race, hist>>

\* The listing page came, and one of its anchors has an href that urljoin cannot
\* parse (ValueError, e.g. href="//[x.pdf"): the link finders raise.  Nothing in
\* coletar_pdf_first catches it, so the call ends there: the rows already
\* inserted stay, the sources left are not visited, set_ultima_coleta is not
\* reached and no list is returned.  In generate the same exception is caught by
\* the except of the source, which is FetchListing(p, FALSE).
DiscoveryRaises(p) ==
    /\ fetched' = Upd(fetched, p, fetched[p] \cup {idx[p]})
    /\ pc' = Upd(pc, p, "raised")
    /\ UNCHANGED <<editais, next_id, ultima_coleta, now, runs, cb, idx, pdfs, cand, ci,
                   checked, pi, count, doc, results, events, heads, gets, slept,
                   inserted, race, hist>>

\* Faulty variant: the content-type of the answer is not looked at.
Probe_suffix_only(p, cap, answer) ==
    /\ IF ci[p] > Len(cand[p]) \/ checked[p] >= cap
       THEN /\ answer = "html"
            /\ pc' = Upd(pc, p, "cand")
            /\ UNCHANGED <<pdfs, ci, checked, heads>>
       ELSE /\ heads' = Upd(heads, p, heads[p] + 1)
            /\ ci' = Upd(ci, p, ci[p] + 1)
            /\ IF answer = "error"
               THEN UNCHANGED <<pdfs, checked>>
               ELSE /\ pdfs' = Upd(pdfs, p,
                                   IF EndsWithPdf(cand[p][ci[p]].url)
                                   THEN Append(pdfs[p], cand[p][ci[p]])
                                   ELSE pdfs[p])
                    /\ checked' = Upd(checked, p, checked[p] + 1)
            /\ UNCHANGED pc
    /\ UNCHANGED <<editais, next_id, ultima_coleta, now, runs, cb, idx, cand, pi, count,
                   doc, results, events, fetched, gets, slept, inserted, race, hist>>

\* One pass of the loop over cand: the break, or a HEAD request that raises
\* ("error") or answers with a content-type ("pdf", "html").
Probe(p, cap, answer) ==
    /\ IF ci[p] > Len(cand[p]) \/ checked[p] >= cap
       THEN /\ answer = "html"
            /\ pc' = Upd(pc, p, "cand")
            /\ UNCHANGED <<pdfs, ci, checked, heads>>
       ELSE /\ heads' = Upd(heads, p, heads[p] + 1)
            /\ ci' = Upd(ci, p, ci[p] + 1)
            /\ IF answer = "error"
               THEN UNCHANGED <<pdfs, checked>>
               ELSE /\ pdfs' = Upd(pdfs, p,
                                   IF answer = "pdf" \/ EndsWithPdf(cand[p][ci[p]].url)
                                   THEN Append(pdfs[p], cand[p][ci[p]])
                                   ELSE pdfs[p])
                    /\ checked' = Upd(checked, p, checked[p] + 1)
            /\ UNCHANGED pc
    /\ UNCHANGED <<editais, next_id, ultima_coleta, now, runs, cb, idx, cand, pi, count,
                   doc, results, events, fetched, gets, slept, inserted, race, hist>>

\* title_guess of coletar_pdf_first
title_guess(link) == Or(link.text, Or(filename_from_url(link.url), <<link.url>>))

\* The title a collector falls back on when the text yields none: title_guess
\* in coletar_pdf_first, link_text in generate.
Fallback(p, link) == IF p = "coletar" THEN title_guess(link) ELSE link.text

\* What one pass of the loop over pdfs computes from the text of its download,
\* with the clock at t, before it decides what to do with the candidate.
Extract(text, fallback, t) ==
    LET titulo == clean_title(Or(extract_first_title_from_text(text), fallback))
    IN [len |-> text.len,
        likely |-> is_likely_edital(titulo, text),
        titulo |-> Or(normalize_text(titulo), fallback),
        prazo |-> extract_prazo_at(text, t),
        valor |-> extract_valor(text),
        data_publicacao |-> extract_data_publicacao(text)]

Range(s) == {s[i] : i \in 1..Len(s)}

\* Every (url, text) pair the listing pages of SOURCES can put into pdfs.
CandidateLinks ==
    UNION {Range(find_pdf_links_on_page(Listing(SOURCES[i].url)))
           \cup Range(find_candidate_links_by_keywords(Listing(SOURCES[i].url),
                                                       SOURCES[i].keywords)) :
           i \in 1..Len(SOURCES)}

\* Extract, tabulated over the candidates, the two collectors and the clock.
Extracted ==
    [link \in CandidateLinks, p \in Procs, t \in 0..MaxNow |->
        Extract(PdfText(link.url), Fallback(p, link), t)]

\* Collector q is inside a call of salvar for this link, which has not returned.
InSalvar(q, link) == pc[q] \in {"salvar", "insert"} /\ doc[q].link = link

\* Faulty variant: a failed download or an empty text ends the loop over pdfs.
Candidate_break_on_failure(p, cap, got) ==
    /\ IF pi[p] > Len(pdfs[p]) \/ count[p] >= cap
       THEN /\ got = "fail"
            /\ NextSource(p)
            /\ UNCHANGED <<slept, race>>
       ELSE IF got # "text" \/ Extracted[pdfs[p][pi[p]], p, now].len = 0
       THEN /\ NextSource(p)
            /\ UNCHANGED <<slept, race>>
       ELSE LET pdf_url == pdfs[p][pi[p]].url
                x == Extracted[pdfs[p][pi[p]], p, now]
                fonte == SOURCES[idx[p]].fonte
                d == Doc(x.titulo, fonte, x.prazo, x.valor, pdf_url, fonte,
                         x.data_publicacao)
            IN /\ gets' = Upd(gets, p, gets[p] + 1)
               /\ slept' = Upd(slept, p, "no")
               /\ IF \/ ~x.likely
                          \/ IsBlankLink(pdf_url)
                          \/ (x.prazo # NoDate /\ is_date_future(x.prazo) = "False")
                  THEN /\ pi' = Upd(pi, p, pi[p] + 1)
                       /\ count' = Upd(count, p, count[p] + 1)
                       /\ UNCHANGED <<pc, doc>>
                  ELSE /\ doc' = Upd(doc, p, d)
                       /\ pc' = Upd(pc, p, "salvar")
                       /\ UNCHANGED <<pi, count>>
               /\ race' = IF /\ got = "text" /\ x.len # 0 /\ x.likely
                             /\ ~IsBlankLink(pdf_url)
                             /\ ~(x.prazo # NoDate /\ is_date_future(x.prazo) = "False")
                             /\ InSalvar(Other(p), pdf_url)
                             /\ ~\E r \in editais : r.link = pdf_url
                          THEN [link |-> pdf_url, ret |-> [q \in Procs |-> "pending"]]
                          ELSE race
               /\ UNCHANGED <<idx, pdfs, cand, ci, checked, heads>>
    /\ UNCHANGED <<editais, next_id, ultima_coleta, now, runs, cb, results, events,
                   fetched, inserted, hist>>

\* One pass of the loop over pdfs up to the call of salvar: the break or the end
\* of the loop, or a download that fails ("fail"), whose text extraction fails or
\* yields nothing ("unreadable"), or that yields text ("text").
Candidate(p, cap, got) ==
    /\ IF pi[p] > Len(pdfs[p]) \/ count[p] >= cap
       THEN /\ got = "fail"
            /\ NextSource(p)
            /\ UNCHANGED <<slept, race>>
       ELSE LET pdf_url == pdfs[p][pi[p]].url
                x == Extracted[pdfs[p][pi[p]], p, now]
                fonte == SOURCES[idx[p]].fonte
                d == Doc(x.titulo, fonte, x.prazo, x.valor, pdf_url, fonte,
                         x.data_publicacao)
            IN /\ gets' = Upd(gets, p, gets[p] + 1)
               /\ slept' = Upd(slept, p, "no")
               /\ IF got # "text" \/ x.len = 0
                  THEN /\ pi' = Upd(pi, p, pi[p] + 1)
                       /\ UNCHANGED <<pc, count, doc>>
                  ELSE IF \/ ~x.likely
                          \/ IsBlankLink(pdf_url)
                          \/ (x.prazo # NoDate /\ is_date_future(x.prazo) = "False")
                  THEN /\ pi' = Upd(pi, p, pi[p] + 1)
                       /\ count' = Upd(count, p, count[p] + 1)
                       /\ UNCHANGED <<pc, doc>>
                  ELSE /\ doc' = Upd(doc, p, d)
                       /\ pc' = Upd(pc, p, "salvar")
                       /\ UNCHANGED <<pi, count>>
               /\ race' = IF /\ got = "text" /\ x.len # 0 /\ x.likely
                             /\ ~IsBlankLink(pdf_url)
                             /\ ~(x.prazo # NoDate /\ is_date_future(x.prazo) = "False")
                             /\ InSalvar(Other(p), pdf_url)
                             /\ ~\E r \in editais : r.link = pdf_url
                          THEN [link |-> pdf_url, ret |-> [q \in Procs |-> "pending"]]
                          ELSE race
               /\ UNCHANGED <<idx, pdfs, cand, ci, checked, heads>>
    /\ UNCHANGED <<editais, next_id, ultima_coleta, now, runs, cb, results, events,
                   fetched, inserted, hist>>

\* salvar(doc) up to its INSERT: the empty link, the exists_fp pre-check.
SalvarCheck(p) ==
    /\ pc[p] = "salvar"
    /\ pc' = Upd(pc, p, IF salvar_precheck(doc[p]) = "insert" THEN "insert" ELSE "dup")
    /\ race' = IF /\ salvar_precheck(doc[p]) # "insert"
                  /\ race.link = doc[p].link
                  /\ race.ret[p] = "pending"
               THEN [race EXCEPT !.ret[p] = "False"]
               ELSE race
    /\ UNCHANGED <<editais, next_id, ultima_coleta, now, runs, cb, idx, pdfs, cand, ci,
                   checked, pi, count, doc, results, events, fetched, heads, gets, slept,
                   inserted, hist>>

\* salvar(doc) from its INSERT to its return.
SalvarInsert(p) ==
    /\ pc[p] = "insert"
    /\ \E ret \in BOOLEAN :
          /\ salvar_insert(doc[p], make_fingerprint(doc[p].link, doc[p].titulo), ret)
          /\ pc' = Upd(pc, p, IF ret THEN "saved" ELSE "dup")
          /\ race' = IF race.link = doc[p].link /\ race.ret[p] = "pending"
                     THEN [race EXCEPT !.ret[p] = IF ret THEN "True" ELSE "False"]
                     ELSE race
    /\ UNCHANGED <<ultima_coleta, now, runs, cb, idx, pdfs, cand, ci, checked, pi, count,
                   doc, results, events, fetched, heads, gets, slept, hist>>

\* Faulty variant: doc is appended whatever salvar returned.
AfterSalvar_append_always(p) ==
    /\ pc[p] \in {"saved", "dup"}
    /\ results' = Upd(results, p, Append(results[p], doc[p]))
    /\ count' = Upd(count, p, count[p] + 1)
    /\ slept' = Upd(slept, p, "yes")
    /\ pi' = Upd(pi, p, pi[p] + 1)
    /\ doc' = Upd(doc, p, NoDoc)
    /\ pc' = Upd(pc, p, "cand")
    /\ UNCHANGED <<editais, next_id, ultima_coleta, now, runs, cb, idx, pdfs, cand, ci,
                   checked, events, fetched, heads, gets, inserted, race,
                   hist>>

\* The rest of the pass once salvar returned: the result list, count, the sleep.
AfterSalvar(p) ==
    /\ pc[p] \in {"saved", "dup"}
    /\ results' = Upd(results, p,
                      IF pc[p] = "saved" THEN Append(results[p], doc[p]) ELSE results[p])
    /\ count' = Upd(count, p, count[p] + 1)
    /\ slept' = Upd(slept, p, "yes")
    /\ pi' = Upd(pi, p, pi[p] + 1)
    /\ doc' = Upd(doc, p, NoDoc)
    /\ pc' = Upd(pc, p, "cand")
    /\ UNCHANGED <<editais, next_id, ultima_coleta, now, runs, cb, idx, pdfs, cand, ci,
                   checked, events, fetched, heads, gets, inserted, race,
                   hist>>

(* -------------------------- coletar_pdf_first ------------------------- *)

ColetarStart ==
    /\ StartRun("coletar")
    /\ \E given \in BOOLEAN : cb' = given

ColetarProgress ==
    /\ pc["coletar"] = "progress"
    /\ events' = IF cb
                 THEN Upd(events, "coletar",
                          Append(events["coletar"],
                                 progress_event(idx["coletar"], total_sources)))
                 ELSE events
    /\ pc' = Upd(pc, "coletar", "fetch")
    /\ UNCHANGED <<editais, next_id, ultima_coleta, now, runs, cb, idx, pdfs, cand, ci,
                   checked, pi, count, doc, results, fetched, heads, gets, slept, inserted, race, hist>>

ColetarFetch ==
    /\ pc["coletar"] = "fetch"
    /\ \/ \E ok \in BOOLEAN : FetchListing("coletar", ok)
       \/ DiscoveryRaises("coletar")

ColetarProbe ==
    /\ pc["coletar"] = "probe"
    /\ \E answer \in {"error", "pdf", "html"} : Probe("coletar", MAX_PER_SOURCE, answer)

ColetarCandidate ==
    /\ pc["coletar"] = "cand"
    /\ \E got \in {"fail", "unreadable", "text"} :
          Candidate("coletar", MAX_PER_SOURCE, got)

ColetarSalvar == SalvarCheck("coletar") \/ SalvarInsert("coletar") \/ AfterSalvar("coletar")

\* set_ultima_coleta() and return results
ColetarFinish ==
    /\ pc["coletar"] = "finish"
    /\ set_ultima_coleta
    /\ pc' = Upd(pc, "coletar", "done")
    /\ UNCHANGED <<editais, next_id, now, runs, cb, idx, pdfs, cand, ci, checked, pi,
                   count, doc, results, events, fetched, heads, gets, slept, inserted, race, hist>>

(* ----------------------- coletar_stream.generate ---------------------- *)

StreamStart ==
    /\ StartRun("stream")
    /\ UNCHANGED cb

StreamProgress ==
    /\ pc["stream"] = "progress"
    /\ events' = Upd(events, "stream",
                     Append(events["stream"], progress_event(idx["stream"], total_sources)))
    /\ pc' = Upd(pc, "stream", "fetch")
    /\ UNCHANGED <<editais, next_id, ultima_coleta, now, runs, cb, idx, pdfs, cand, ci,
                   checked, pi, count, doc, results, fetched, heads, gets, slept, inserted, race, hist>>

StreamFetch ==
    /\ pc["stream"] = "fetch"
    /\ \E ok \in BOOLEAN : FetchListing("stream", ok)

StreamProbe ==
    /\ pc["stream"] = "probe"
    /\ \E answer \in {"error", "pdf", "html"} : Probe("stream", MAX_PER_SOURCE, answer)

StreamCandidate ==
    /\ pc["stream"] = "cand"
    /\ \E got \in {"fail", "unreadable", "text"} :
          Candidate("stream", MAX_PER_SOURCE, got)

StreamSalvar == SalvarCheck("stream") \/ SalvarInsert("stream") \/ AfterSalvar("stream")

\* set_ultima_coleta() and the "complete" message
StreamFinish ==
    /\ pc["stream"] = "finish"
    /\ set_ultima_coleta
    /\ events' = Upd(events, "stream",
                     Append(events["stream"],
                            complete_event(total_sources, Len(results["stream"]))))
    /\ pc' = Upd(pc, "stream", "done")
    /\ UNCHANGED <<editais, next_id, now, runs, cb, idx, pdfs, cand, ci, checked, pi,
                   count, doc, results, fetched, heads, gets, slept, inserted,
                   race, hist>>

(* --------------------- the other requests, the clock ------------------ *)

\* GET /limpar_vencidos
LimparVencidos ==
    /\ limpar_vencidos
    /\ race' = NoRace
    /\ UNCHANGED <<now, pc, runs, cb, idx, pdfs, cand, ci, checked, pi, count, doc,
                   results, events, fetched, heads, gets, slept, inserted,
                   hist>>

\* GET /limpar_banco up to its first commit: the rows are gone.
LimparBanco ==
    /\ pc["limpar_banco"] = "idle"
    /\ delete_editais
    /\ race' = NoRace
    /\ pc' = Upd(pc, "limpar_banco", "config")
    /\ UNCHANGED <<next_id, ultima_coleta, now, runs, cb, idx, pdfs, cand, ci, checked,
                   pi, count, doc, results, events, fetched, heads, gets, slept, hist>>

\* GET /limpar_banco from its first commit to its second: the timestamp is gone.
LimparBancoConfig ==
    /\ pc["limpar_banco"] = "config"
    /\ delete_config
    /\ pc' = Upd(pc, "limpar_banco", "idle")
    /\ UNCHANGED <<editais, next_id, now, runs, cb, idx, pdfs, cand, ci, checked, pi,
                   count, doc, results, events, fetched, heads, gets, slept, inserted,
                   race, hist>>

\* Half a day passes.
Tick ==
    /\ now < MaxNow
    /\ now' = now + 1
    /\ UNCHANGED <<editais, next_id, ultima_coleta, pc, runs, cb, idx, pdfs, cand, ci,
                   checked, pi, count, doc, results, events, fetched, heads, gets, slept,
                   inserted, race, hist>>

Links ==
    {"http://a/1.pdf", "http://a/2.pdf", "http://a/3.pdf", "http://b/edital1",
     "http://b/chamada2", "http://b/edital3", " "}

\* The state after init_db and before any request, a caller's record in hist.
Started(h) ==
    /\ editais = {}
    /\ next_id = 1
    /\ ultima_coleta = <<>>
    /\ now = 0
    /\ pc = [p \in Procs \cup {"limpar_banco"} |-> "idle"]
    /\ runs = 0
    /\ cb = FALSE
    /\ idx = [p \in Procs |-> 1]
    /\ pdfs = [p \in Procs |-> <<>>]
    /\ cand = [p \in Procs |-> <<>>]
    /\ ci = [p \in Procs |-> 1]
    /\ checked = [p \in Procs |-> 0]
    /\ pi = [p \in Procs |-> 1]
    /\ count = [p \in Procs |-> 0]
    /\ doc = [p \in Procs |-> NoDoc]
    /\ results = [p \in Procs |-> <<>>]
    /\ events = [p \in Procs |-> <<>>]
    /\ fetched = [p \in Procs |-> {}]
    /\ heads = [p \in Procs |-> 0]
    /\ gets = [p \in Procs |-> 0]
    /\ slept = [p \in Procs |-> "start"]
    /\ inserted = [l \in Links |-> 0]
    /\ race = NoRace
    /\ hist = h

Init == Started(<<>>)

(* ---------------- the store under one sequential caller ---------------- *)

\* The dicts the caller passes to salvar.
Records ==
    {Doc(t, "CNPq", IF t = <<"chamada", SP, "pesquisa">> THEN Dlate ELSE Dearly, "None",
         l, "CNPq", NoDate) :
        t \in {<<"edital", SP, "nº12/2024">>, <<SP, "edital", TAB, SP, "nº12/2024">>,
               <<"chamada", SP, "pesquisa">>},
        l \in {"http://a/1.pdf", "http://a/3.pdf", " "}}

\* What hist keeps of one call of salvar(d): its result, and what the table held
\* before it.
Call(d, ret) ==
    [d |-> d, ret |-> ret,
     link_stored |-> \E r \in editais : r.link = d.link,
     fp_stored |-> exists_fp(make_fingerprint(d.link, d.titulo)),
     rows |-> Cardinality(editais)]

Push(c) == IF hist = <<>> THEN <<c>> ELSE <<hist[Len(hist)], c>>

\* salvar(d), called with no other request in flight.
Salvar(d) ==
    /\ next_id <= MaxId
    /\ IF salvar_precheck(d) = "insert"
       THEN \E ret \in BOOLEAN :
               /\ salvar_insert(d, make_fingerprint(d.link, d.titulo), ret)
               /\ hist' = Push(Call(d, ret))
       ELSE /\ hist' = Push(Call(d, FALSE))
            /\ UNCHANGED <<editais, next_id, inserted>>
    /\ UNCHANGED <<ultima_coleta, now, pc, runs, cb, idx, pdfs, cand, ci, checked, pi,
                   count, doc, results, events, fetched, heads, gets, slept, race>>

CallSalvar == \E d \in Records : Salvar(d)

CallLimparVencidos ==
    /\ limpar_vencidos
    /\ hist' = <<>>
    /\ UNCHANGED <<now, pc, runs, cb, idx, pdfs, cand, ci, checked, pi, count, doc,
                   results, events, fetched, heads, gets, slept, inserted, race>>

CallLimparBanco ==
    /\ limpar_banco
    /\ hist' = <<>>
    /\ UNCHANGED <<now, pc, runs, cb, idx, pdfs, cand, ci, checked, pi, count, doc,
                   results, events, fetched, heads, gets, slept, race>>

NextStore == CallSalvar \/ CallLimparVencidos \/ CallLimparBanco \/ Tick

SpecStore == Init /\ [][NextStore]_vars

(* ------------------- the date functions, called alone ------------------ *)

\* The years a caller writes, digit by digit.
YearsWritten ==
    {<<0, 0>>, <<2, 4>>, <<4, 9>>, <<5, 0>>, <<9, 9>>, <<0, 9, 9>>, <<0, 0, 0, 0>>,
     <<0, 0, 9, 9>>, <<1, 9, 0, 0>>, <<2, 0, 0, 0>>, <<2, 0, 2, 3>>, <<2, 0, 2, 4>>}

\* The numeric strings D<sep>M<sep>Y handed to parse_brazilian_date.
NumericDates ==
    {[d |-> d, m |-> m, yd |-> yd, sep |-> sep] :
        d \in {0, 1, 28, 29, 30, 31, 32}, m \in {0, 1, 2, 4, 12, 13},
        yd \in YearsWritten, sep \in {"/", "-", "."}}

RECURSIVE IntOf(_)
\* int(s) of a run of decimal digits
IntOf(digits) ==
    IF digits = <<>> THEN 0
    ELSE 10 * IntOf(SubSeq(digits, 1, Len(digits) - 1)) + digits[Len(digits)]

\* day, month, year = map(int, parts): the string as the parser reads it.
Read(w) == DateStr(w.d, w.m, IntOf(w.yd), w.sep)

MaxDates == 3

\* The date-shaped substrings a text may hold: a past, a grace-day, two
\* spellings of one future day, a later one, and one that does not parse.
DateStrs ==
    {Dpast, Dearly, Dlate, DateStr(6, 6, 2030, "/"), DateStr(1, 1, 2031, "."), Dbad}

\* The texts handed to extract_prazo_and_valor, "" among them.
DatedTexts ==
    {EmptyText} \cup
    {CallText(<<>>, ds) : ds \in UNION {[1..k -> DateStrs] : k \in 0..MaxDates}}

DateCalls ==
    {[fn |-> "parse_brazilian_date", arg |-> w] : w \in NumericDates} \cup
    {[fn |-> "extract_prazo_and_valor", arg |-> text] : text \in DatedTexts}

InitDates == \E c \in DateCalls : Started(<<c>>)

\* The call in hist returns: its result and the clock it ran at.
Return(ret) ==
    /\ hist' = Append(hist, [ret |-> ret, at |-> now])
    /\ UNCHANGED <<editais, next_id, ultima_coleta, now, pc, runs, cb, idx, pdfs, cand,
                   ci, checked, pi, count, doc, results, events, fetched, heads, gets,
                   slept, inserted, race>>

CallParse ==
    /\ Len(hist) = 1
    /\ hist[1].fn = "parse_brazilian_date"
    /\ Return(parse_brazilian_date(Read(hist[1].arg)))

CallExtractPrazo ==
    /\ Len(hist) = 1
    /\ hist[1].fn = "extract_prazo_and_valor"
    /\ Return(extract_prazo_at(hist[1].arg, now))

NextDates == CallParse \/ CallExtractPrazo \/ Tick

SpecDates == InitDates /\ [][NextDates]_vars

(* --------------------- the classifier, called alone -------------------- *)

\* The titles handed to is_likely_edital, None and "" among them.
Titles ==
    {NoTitle, <<>>,
     <<"edital", SP, "nº", SP, "12/2024">>,
     <<"edital", SP, "fapesp">>,
     <<"fapesp", SP, "nº12/2024">>,
     <<"fapesp", SP, "pesquisa">>,
     <<"manual", SP, "edital", SP, "nº12/2024">>,
     <<"chamada", SP, SP, SP>>,
     <<SP, "edital", SP>>,
     <<"nº12/2024">>}

\* The texts handed to is_likely_edital: "", a text of whitespace alone, and
\* texts of 200 to 600 words; what stands in the first 1000 characters stands
\* in the first 2000 as well.
Texts ==
    {EmptyText, [EmptyText EXCEPT !.len = 3]} \cup
    {[CallText(<<>>, <<>>) EXCEPT !.words = n, !.first1000 = a, !.first2000 = a \cup b] :
        n \in {200, 499, 500, 600},
        a \in SUBSET {"submissão", "edital", "ata"},
        b \in SUBSET {"r$", "pesquisa"}}

ClassifierCalls ==
    {[fn |-> "is_likely_edital", arg |-> [titulo |-> titulo, texto |-> texto]] :
        titulo \in Titles, texto \in Texts}

InitClassifier == \E c \in ClassifierCalls : Started(<<c>>)

CallIsLikelyEdital ==
    /\ Len(hist) = 1
    /\ hist[1].fn = "is_likely_edital"
    /\ Return(is_likely_edital(hist[1].arg.titulo, hist[1].arg.texto))

NextClassifier == CallIsLikelyEdital

SpecClassifier == InitClassifier /\ [][NextClassifier]_vars

(* -------------------- the link finders, called alone ------------------- *)

MaxAnchors == 3

\* The <a href> elements a page may hold: PDF links, one of them twice with
\* two labels, links with a query, a link that is not http, and one page
\* linked plainly, with a fragment and with a trailing slash, inside and
\* outside the content containers.
Anchors ==
    {Anchor(TRUE, FALSE, "http://a/1.pdf", TRUE, <<"edital", SP, "nº12/2024">>,
            url_key("http://a/1.pdf"), TRUE, {"edital"}),
     Anchor(TRUE, FALSE, "http://a/1.pdf", TRUE, <<"chamada">>,
            url_key("http://a/1.pdf"), FALSE, {"edital"}),
     Anchor(TRUE, FALSE, "http://a/3.pdf", TRUE, <<>>,
            url_key("http://a/3.pdf"), FALSE, {}),
     Anchor(TRUE, TRUE, "http://a/view?f=2.pdf", TRUE, <<"edital">>,
            url_key("http://a/view?f=2.pdf"), FALSE, {}),
     Anchor(FALSE, TRUE, "http://a/view?pdf=2", TRUE, <<"edital">>,
            url_key("http://a/view?pdf=2"), FALSE, {}),
     Anchor(TRUE, FALSE, "mailto:a@b.pdf", FALSE, <<"edital">>,
            url_key("mailto:a@b.pdf"), TRUE, {}),
     Anchor(FALSE, FALSE, "http://b/edital1", TRUE, <<"edital", SP, "fapesp">>,
            url_key("http://b/edital1"), TRUE, {"edital"}),
     Anchor(FALSE, FALSE, "http://b/edital1#top", TRUE, <<"edital", SP, "fapesp">>,
            url_key("http://b/edital1#top"), TRUE, {"edital"}),
     Anchor(FALSE, FALSE, "http://b/edital1", TRUE, <<"edital", SP, "fapesp">>,
            url_key("http://b/edital1"), FALSE, {"edital"}),
     Anchor(FALSE, FALSE, "http://b/edital1/", TRUE, <<"edital", SP, "fapesp">>,
            url_key("http://b/edital1/"), FALSE, {"edital"}),
     Anchor(FALSE, FALSE, "http://b/sobre", TRUE, <<"fapesp">>,
            url_key("http://b/sobre"), TRUE, {})}

\* The pages: up to MaxAnchors anchors in document order, repeats included.
Pages == UNION {[1..k -> Anchors] : k \in 0..MaxAnchors}

LinkCalls ==
    {[fn |-> "find_pdf_links_on_page", arg |-> [html |-> html]] : html \in Pages} \cup
    {[fn |-> "find_candidate_links_by_keywords",
      arg |-> [html |-> html, keywords |-> keywords]] :
        html \in Pages, keywords \in {SOURCES[1].keywords, SOURCES[2].keywords, {"chamada"}}}

InitLinks == \E c \in LinkCalls : Started(<<c>>)

CallFindPdfLinks ==
    /\ Len(hist) = 1
    /\ hist[1].fn = "find_pdf_links_on_page"
    /\ Return(find_pdf_links_on_page(hist[1].arg.html))

CallFindCandidateLinks ==
    /\ Len(hist) = 1
    /\ hist[1].fn = "find_candidate_links_by_keywords"
    /\ Return(find_candidate_links_by_keywords(hist[1].arg.html, hist[1].arg.keywords))

NextLinks == CallFindPdfLinks \/ CallFindCandidateLinks

SpecLinks == InitLinks /\ [][NextLinks]_vars

(* ------------------ the text extraction, called alone ------------------ *)

MaxPages == 3

\* extract_text_from_pdf_bytes's None.
NoText == <<"None">>

\* What p.extract_text() yields for page i of a document: its text, None, or
\* an exception.
PageKinds == {"text", "none", "raises"}

\* The text page i holds, one token per page.
PageText(i) ==
    CASE i = 1 -> "page1" [] i = 2 -> "page2" [] i = 3 -> "page3" [] OTHER -> "page4"

\* The bytes handed to extract_text_from_pdf_bytes: documents of up to MaxPages
\* pages, and bytes PdfReader cannot read.
PdfBytes ==
    {[readable |-> FALSE, pages |-> <<>>]} \cup
    {[readable |-> TRUE, pages |-> ps] :
        ps \in UNION {[1..k -> PageKinds] : k \in 0..MaxPages}}

RECURSIVE read_pages(_, _, _)
\* The list texts once the loop over reader.pages has reached index i (from 0).
read_pages(pages, i, max_pages) ==
    IF i >= Len(pages) THEN <<>>
    ELSE LET texts == CASE pages[i + 1] = "text" -> << <<PageText(i + 1)>> >>
                        [] pages[i + 1] = "none" -> << <<>> >>
                        [] OTHER -> <<>>
         IN IF i + 1 >= max_pages THEN texts
            ELSE texts \o read_pages(pages, i + 1, max_pages)

RECURSIVE join_lines(_)
\* "\n".join(texts)
join_lines(texts) ==
    IF texts = <<>> THEN <<>>
    ELSE IF Len(texts) = 1 THEN texts[1]
    ELSE texts[1] \o <<"\n">> \o join_lines(Tail(texts))

extract_text_from_pdf_bytes(b, max_pages) ==
    IF ~b.readable THEN NoText ELSE join_lines(read_pages(b.pages, 0, max_pages))

PdfCalls ==
    {[fn |-> "extract_text_from_pdf_bytes", arg |-> [b |-> b, max_pages |-> n]] :
        b \in PdfBytes, n \in 0..(MaxPages + 1)}

InitPdf == \E c \in PdfCalls : Started(<<c>>)

CallExtractText ==
    /\ Len(hist) = 1
    /\ hist[1].fn = "extract_text_from_pdf_bytes"
    /\ Return(extract_text_from_pdf_bytes(hist[1].arg.b, hist[1].arg.max_pages))

NextPdf == CallExtractText

SpecPdf == InitPdf /\ [][NextPdf]_vars

(* ------------- the two collectors over one and the same web ------------ *)

\* The URLs a run can probe with HEAD: the keyword candidates of the sources
\* whose listing page has no direct PDF link.
ProbedUrls ==
    UNION {{l.url : l \in Range(find_candidate_links_by_keywords(Listing(SOURCES[i].url),
                                                                 SOURCES[i].keywords))} :
           i \in {j \in 1..Len(SOURCES) :
                     find_pdf_links_on_page(Listing(SOURCES[j].url)) = <<>>}}

\* What the web and the clock give to a run, to whichever collector asks: per
\* source the listing page (not served, served, served with an href urljoin
\* cannot parse), per URL the answer to HEAD and what its download yields, and
\* the time of the run.
Webs ==
    [page : [1..Len(SOURCES) -> {"error", "ok", "raises"}],
     head : [ProbedUrls -> {"error", "pdf", "html"}],
     got : [{l.url : l \in CandidateLinks} -> {"fail", "unreadable", "text"}],
     t : 0..MaxNow]

InitEquiv == \E w \in Webs : Started(<<[fn |-> "collect", arg |-> w]>>)

Web == hist[1].arg

\* The clock reaches the time of the runs before the first of them starts.
EquivTick ==
    /\ runs = 0
    /\ now < Web.t
    /\ Tick

\* Collector p is called once, with no other request in flight, on the store as
\* init_db left it.
EquivStart(p) ==
    /\ now = Web.t
    /\ pc[p] = "idle"
    /\ pc[Other(p)] \in {"idle", "done", "raised"}
    /\ editais = {}
    /\ ultima_coleta = <<>>
    /\ IF p = "coletar" THEN ColetarStart ELSE StreamStart

\* Between the two runs GET /limpar_banco, served whole, puts the store back.
EquivPurge ==
    /\ \E p \in Procs : pc[p] \in {"done", "raised"} /\ pc[Other(p)] = "idle"
    /\ editais # {} \/ ultima_coleta # <<>>
    /\ limpar_banco
    /\ UNCHANGED <<now, pc, runs, cb, idx, pdfs, cand, ci, checked, pi, count, doc,
                   results, events, fetched, heads, gets, slept, race, hist>>

\* A step of collector p, its requests answered as Web says.
EquivStep(p) ==
    \/ IF p = "coletar" THEN ColetarProgress ELSE StreamProgress
    \/ /\ pc[p] = "fetch"
       /\ IF Web.page[idx[p]] = "raises"
          THEN IF p = "coletar" THEN DiscoveryRaises(p) ELSE FetchListing(p, FALSE)
          ELSE FetchListing(p, Web.page[idx[p]] = "ok")
    \/ /\ pc[p] = "probe"
       /\ Probe(p, MAX_PER_SOURCE,
                IF ci[p] > Len(cand[p]) \/ checked[p] >= MAX_PER_SOURCE
                THEN "html" ELSE Web.head[cand[p][ci[p]].url])
    \/ /\ pc[p] = "cand"
       /\ Candidate(p, MAX_PER_SOURCE,
                    IF pi[p] > Len(pdfs[p]) \/ count[p] >= MAX_PER_SOURCE
                    THEN "fail" ELSE Web.got[pdfs[p][pi[p]].url])
    \/ IF p = "coletar" THEN ColetarSalvar ELSE StreamSalvar
    \/ IF p = "coletar" THEN ColetarFinish ELSE StreamFinish

NextEquiv == EquivTick \/ EquivPurge \/ \E p \in Procs : EquivStart(p) \/ EquivStep(p)

SpecEquiv == InitEquiv /\ [][NextEquiv]_vars

(* ------------------------- the whole program -------------------------- *)

Next ==
    \/ ColetarStart \/ ColetarProgress \/ ColetarFetch \/ ColetarProbe
    \/ ColetarCandidate \/ ColetarSalvar \/ ColetarFinish
    \/ StreamStart \/ StreamProgress \/ StreamFetch \/ StreamProbe
    \/ StreamCandidate \/ StreamSalvar \/ StreamFinish
    \/ LimparVencidos \/ LimparBanco \/ LimparBancoConfig \/ Tick

Spec == Init /\ [][Next]_vars

\* Each collector is a thread running sequential code whose every blocking call
\* (requests.get, requests.head, time.sleep, the sqlite3 statements) returns or
\* times out, so a collector that can take its next step takes it.
ColetarStep ==
    \/ ColetarProgress \/ ColetarFetch \/ ColetarProbe
    \/ ColetarCandidate \/ ColetarSalvar \/ ColetarFinish

StreamStep ==
    \/ StreamProgress \/ StreamFetch \/ StreamProbe
    \/ StreamCandidate \/ StreamSalvar \/ StreamFinish

\* The runs alone: the two collectors and the clock.
NextRun == ColetarStart \/ StreamStart \/ ColetarStep \/ StreamStep \/ Tick

FairSpec == Init /\ [][NextRun]_vars /\ WF_vars(ColetarStep) /\ WF_vars(StreamStep)

(* ------------------------------- claims ------------------------------- *)

RowsOf(link) == {r \in editais : r.link = link}

\* C1. Idempotent insert: when salvar is called twice in a row with the same
\* record r, whose link is not empty, the table then holds exactly one row with
\* r's link, the first call returned True only if no row had r's link or r's
\* fingerprint before it, and the second call returned False.
C1_IdempotentInsert ==
    (/\ Len(hist) = 2
     /\ hist[1].d = hist[2].d
     /\ ~IsBlankLink(hist[2].d.link))
    => /\ Cardinality(RowsOf(hist[2].d.link)) = 1
       /\ hist[1].ret => ~hist[1].link_stored /\ ~hist[1].fp_stored
       /\ ~hist[2].ret

\* C1's case: the first of the two calls inserted the record.
C1_Witness ==
    /\ Len(hist) = 2
    /\ hist[1].d = hist[2].d
    /\ ~IsBlankLink(hist[2].d.link)
    /\ hist[1].ret

\* C2. Link uniqueness: no two rows of the table share a link; and a call of
\* salvar with a record whose link is stored while its fingerprint is not adds no
\* row and returns False.
C2_LinkUnique ==
    /\ \A r1, r2 \in editais : r1.link = r2.link => r1 = r2
    /\ \A i \in 1..Len(hist) :
          (hist[i].link_stored /\ ~hist[i].fp_stored)
          => /\ ~hist[i].ret
             /\ i = Len(hist) => Cardinality(editais) = hist[i].rows

\* C2's case: the last call passed a stored link under a title that normalizes
\* to another fingerprint.
C2_Witness ==
    /\ hist # <<>>
    /\ hist[Len(hist)].link_stored
    /\ ~hist[Len(hist)].fp_stored
    /\ ~IsBlankLink(hist[Len(hist)].d.link)

\* C3. Concurrent inserts: when the two collectors are inside salvar at once
\* with the same link, which no row has yet, then however their pre-checks and
\* INSERTs interleave, once both calls have returned the table holds exactly one
\* row with that link and exactly one of the two calls returned True, the other
\* False.
C3_ConcurrentInsert ==
    (/\ race.link # NoLink
     /\ \A p \in Procs : race.ret[p] # "pending")
    => /\ Cardinality(RowsOf(race.link)) = 1
       /\ \E p \in Procs : race.ret[p] = "True" /\ race.ret[Other(p)] = "False"

\* C3's case: both racing calls have returned.
C3_Witness ==
    /\ race.link # NoLink
    /\ \A p \in Procs : race.ret[p] \in {"True", "False"}

\* C4. Written at most once: over runs interleaved with limpar_vencidos, and no
\* limpar_banco since, no link is inserted into the table more than once.
C4_WrittenOnce == \A l \in Links : inserted[l] <= 1

\* A run has a progress sink: the stream always, coletar_pdf_first when it is
\* given a progress_callback.
HasSink(p) == p = "stream" \/ cb

ProgressEvents(p) == SelectSeq(events[p], LAMBDA e : e.type = "progress")

\* C5. Progress ordering: the sink of a run over N sources has received the
\* events (1, N), (2, N), ..., (k, N) in this order, once each; a source is
\* fetched only after its event; and a run that is over has sent all N of them.
C5_ProgressOrdering ==
    \A p \in Procs :
       HasSink(p) =>
          LET sent == ProgressEvents(p)
          IN /\ Len(sent) <= total_sources
             /\ \A i \in 1..Len(sent) :
                   sent[i].current = i /\ sent[i].total = total_sources
             /\ \A i \in 1..Len(sent) : events[p][i] = sent[i]
             /\ fetched[p] \subseteq 1..Len(sent)
             /\ pc[p] \in {"finish", "done"} => Len(sent) = total_sources

\* C5's case: a run with a sink is over, and the listing page of one of its
\* sources could not be fetched or gave nothing to save.
C5_Witness ==
    \E p \in Procs :
       /\ HasSink(p)
       /\ pc[p] = "done"
       /\ fetched[p] = 1..total_sources
       /\ Len(results[p]) < total_sources

\* C6. Terminal progress event: when coletar_pdf_first, called with a
\* progress_callback, has returned, the last event the callback received is the
\* completion event (total_sources, number of new records).
C6_TerminalEvent ==
    (pc["coletar"] = "done" /\ cb)
    => /\ events["coletar"] # <<>>
       /\ events["coletar"][Len(events["coletar"])]
             = complete_event(total_sources, Len(results["coletar"]))

Running(p) == pc[p] \notin {"idle", "done", "raised"}

\* C7. Run-completion timestamp: a run ends only by a step that overwrites
\* ultima_coleta with the time of that step, and every run that has started
\* ends, whatever failed during it.
C7_CompletionTimestamp ==
    /\ [][\A p \in Procs :
            (pc[p] # "done" /\ pc'[p] = "done") => ultima_coleta' = <<now>>]_vars
    /\ \A p \in Procs : Running(p) ~> (pc[p] = "done")

\* C7's case: a second run has ended later than the first, having saved nothing.
C7_Witness ==
    \E p \in Procs :
       /\ pc[p] = "done"
       /\ runs = MaxRuns
       /\ results[p] = <<>>
       /\ now > 0
       /\ ultima_coleta = <<now>>

\* C8. Per-source candidate cap: within one source, the number of downloads of
\* candidate PDFs attempted never exceeds max_per_source.
C8_CandidateCap == \A p \in Procs : gets[p] <= MAX_PER_SOURCE

\* C9. Probe cap: within one source, the number of HEAD requests issued never
\* exceeds max_per_source.
C9_ProbeCap == \A p \in Procs : heads[p] <= MAX_PER_SOURCE

\* C10. Pacing: within a run every download of a candidate PDF but the first
\* comes after a time.sleep that followed the download before it.
C10_Pacing ==
    [][\A p \in Procs : gets'[p] = gets[p] + 1 => slept[p] \in {"start", "yes"}]_vars

\* The deadline text parses to a midnight more than a day before the clock t.
Expired(prazo, t) ==
    /\ parse_brazilian_date(prazo) # Unparsed
    /\ 2 * parse_brazilian_date(prazo) < (2 * EpochOrd + t) - 2

\* C11. Deadline filter: a pass of the candidate loop whose text the classifier
\* accepts ends without a call of salvar, counted, if and only if the extracted
\* deadline parses to a date more than a day in the past; with no deadline or
\* one that does not parse, salvar is called, with the deadline text as extracted.
C11_DeadlineFilter ==
    [][\A p \in Procs :
          (/\ pc[p] = "cand"
           /\ gets'[p] = gets[p] + 1
           /\ Extracted[pdfs[p][pi[p]], p, now].likely)
          => LET prazo == Extracted[pdfs[p][pi[p]], p, now].prazo
             IN /\ count'[p] = count[p] + 1 => Expired(prazo, now)
                /\ pc'[p] = "salvar" => /\ ~Expired(prazo, now)
                                        /\ doc'[p].prazo = prazo
                /\ (count'[p] = count[p] /\ pc'[p] = "cand") => pi'[p] = pi[p] + 1]_vars

\* C11's case: a row whose deadline text does not parse has been stored.
C11_Witness ==
    \E r \in editais : r.prazo # NoDate /\ parse_brazilian_date(r.prazo) = Unparsed

\* C12. Purge correctness: limpar_vencidos deletes exactly the rows whose deadline
\* text is not empty and parses to a date more than a day in the past, reports
\* their number, and leaves every other row as it was.
C12_PurgeCorrect ==
    [][LimparVencidos =>
          /\ editais' = {r \in editais : ~(r.prazo # NoDate /\ Expired(r.prazo, now))}
          /\ removidos = Cardinality(editais) - Cardinality(editais')]_vars

\* C12's case: limpar_vencidos has deleted a row and left another.
C12_Witness ==
    /\ editais # {}
    /\ \E l \in Links : inserted[l] >= 1 /\ RowsOf(l) = {}

\* C13. Result list: the list a run returns grows only by the record salvar has
\* just returned True for, appended at its end, and by every such record; a
\* record salvar returned False for is not appended and the loop goes on with the
\* next candidate.
C13_ResultList ==
    [][\A p \in Procs :
          /\ (pc[p] = "saved" /\ pc'[p] # "saved")
             => results'[p] = Append(results[p], doc[p])
          /\ (pc[p] = "dup" /\ pc'[p] # "dup")
             => /\ results'[p] = results[p]
                /\ pc'[p] = "cand"
                /\ pi'[p] = pi[p] + 1
          /\ pc[p] \notin {"saved", "idle", "done", "raised"} => results'[p] = results[p]]_vars

\* C13's case: a run is over that returned a record of the second source only,
\* while the table holds a row of the first source.
C13_Witness ==
    \E p \in Procs :
       /\ pc[p] = "done"
       /\ Len(results[p]) = 1
       /\ results[p][1].fonte = SOURCES[2].fonte
       /\ \E r \in editais : r.fonte = SOURCES[1].fonte

\* A candidate is at hand for collector p: the loop over pdfs is at one of them
\* and below its cap.
AtCandidate(p) ==
    pc[p] = "cand" /\ pi[p] <= Len(pdfs[p]) /\ count[p] < MAX_PER_SOURCE

Returned(fn) == Len(hist) = 2 /\ hist[1].fn = fn

\* C15: the deadline extract_prazo_and_valor returns is one of the text's
\* date-shaped substrings that parse to a date not before the day preceding the
\* clock, and no such substring parses to an earlier date, wherever in the text
\* the dates stand; with no such substring it is the text's last date-shaped
\* substring, and with no date-shaped substring it is no deadline.
C15_DeadlineSelection ==
    Returned("extract_prazo_and_valor") =>
        LET ds == hist[1].arg.dates
            prazo == hist[2].ret
            future == {i \in 1..Len(ds) :
                          parse_brazilian_date(ds[i]) # Unparsed /\ ~Expired(ds[i], hist[2].at)}
        IN /\ future # {} =>
                /\ \E i \in future : prazo = ds[i]
                /\ \A i \in future :
                      parse_brazilian_date(prazo) <= parse_brazilian_date(ds[i])
           /\ (future = {} /\ ds # <<>>) => prazo = ds[Len(ds)]
           /\ ds = <<>> => prazo = NoDate

\* A later date first, a past date second, the earliest future date last: the
\* deadline is the last one.
C15_Witness ==
    /\ Returned("extract_prazo_and_valor")
    /\ hist[1].arg.dates = <<DateStr(1, 1, 2031, "."), Dpast, Dlate>>
    /\ hist[2].ret = Dlate

\* C16: parse_brazilian_date of D<sep>M<sep>Y returns the date of day D, month M
\* and year Y, a Y written with two digits read as 20YY below 50 and as 19YY
\* otherwise, when that is a calendar date, and None when it is not.
C16_DateRoundTrip ==
    Returned("parse_brazilian_date") =>
        LET w == hist[1].arg
            Y == IntOf(w.yd)
            year == IF Len(w.yd) = 2 THEN (IF Y < 50 THEN 2000 + Y ELSE 1900 + Y) ELSE Y
        IN IF ValidDate(year, w.m, w.d)
           THEN hist[2].ret = ToOrdinal(year, w.m, w.d)
           ELSE hist[2].ret = Unparsed

\* C17: is_likely_edital returns False for every title and every text of fewer
\* than 500 words, the empty text included.
C17_WordCountGate ==
    (Returned("is_likely_edital") /\ hist[1].arg.texto.words < 500)
        => hist[2].ret = FALSE

\* Gates 1 to 5 of the classifier, as the specification lists them.
PassesGates(titulo, texto) ==
    /\ titulo # NoTitle /\ titulo # <<>>
    /\ \A palavra \in BLACKLIST_KEYWORDS :
          ~InStr(palavra, titulo) /\ palavra \notin texto.first1000
    /\ StrLen(strip(titulo)) >= 10
    /\ strip(titulo) \notin
          {<<"chamada">>, <<"edital">>, <<"www.">>, <<"governo">>, <<"fundação">>}
    /\ \E kw \in EDITAL_KEYWORDS_REQUIRED : InStr(kw, titulo) \/ kw \in texto.first2000
    /\ texto.words >= 500

\* C18: for a title and text that pass gates 1 to 5, is_likely_edital returns
\* True exactly when 3 for a numbering pattern in the title, 2 for edital or
\* chamada in the title, 1 for a procedural term in the first 1000 characters
\* and 1 for an amount in reais in the first 2000 add up to 3 or more.
C18_Acceptance ==
    (Returned("is_likely_edital") /\ PassesGates(hist[1].arg.titulo, hist[1].arg.texto))
        => LET titulo == hist[1].arg.titulo
               texto == hist[1].arg.texto
               numbered == IF has_number_pattern(titulo) THEN 3 ELSE 0
               named == IF InStr("edital", titulo) \/ InStr("chamada", titulo) THEN 2 ELSE 0
               procedural ==
                   IF \E word \in {"prazo", "submissão", "inscrição", "cronograma"} :
                          word \in texto.first1000
                   THEN 1 ELSE 0
               amount == IF "r$" \in texto.first2000 THEN 1 ELSE 0
           IN hist[2].ret = (numbered + named + procedural + amount >= 3)

\* "Edital Nº 12/2024", 600 words, with "submissão" and "R$ 50.000,00": accepted.
C18_Witness ==
    /\ Returned("is_likely_edital")
    /\ hist[1].arg.titulo = <<"edital", SP, "nº", SP, "12/2024">>
    /\ hist[1].arg.texto.words = 600
    /\ "submissão" \in hist[1].arg.texto.first1000
    /\ "r$" \in hist[1].arg.texto.first2000
    /\ hist[2].ret = TRUE

\* C19: the list find_pdf_links_on_page returns holds no (url, label) pair
\* twice, whatever the page, a page that repeats a PDF link included.
C19_NoDuplicateLinks ==
    Returned("find_pdf_links_on_page") =>
        \A i, j \in 1..Len(hist[2].ret) : hist[2].ret[i] = hist[2].ret[j] => i = j

\* C20: the list find_candidate_links_by_keywords returns holds no two
\* candidates whose URLs are equal once the fragment and the trailing slash
\* are stripped, whether they come from the containers or from the whole page.
C20_NoNearDuplicates ==
    Returned("find_candidate_links_by_keywords") =>
        \A i, j \in 1..Len(hist[2].ret) :
            url_key(hist[2].ret[i].url) = url_key(hist[2].ret[j].url) => i = j

IsPrefix(s, t) == Len(s) <= Len(t) /\ SubSeq(t, 1, Len(s)) = s

C22_PageCap ==
    (Returned("extract_text_from_pdf_bytes") /\ hist[1].arg.b.readable)
        => LET text == hist[2].ret IN
           /\ \A k \in 1..Len(text) : \A i \in 1..(MaxPages + 1) :
                 text[k] = PageText(i) => i <= hist[1].arg.max_pages
           /\ \A k, l \in 1..Len(text) : \A i, j \in 1..(MaxPages + 1) :
                 (text[k] = PageText(i) /\ text[l] = PageText(j) /\ k < l) => i < j

\* C23: every step changes the table only by adding one row under an id no row
\* has, or by deleting rows; a row whose id is still in the table afterwards is
\* the same row, field by field.
C23_NoUpdateInPlace ==
    [][/\ \A r \in editais : \A kept \in editais' : kept.id = r.id => kept = r
       /\ editais' # editais
             => \/ \E row \in editais' :
                      /\ editais' = editais \cup {row}
                      /\ \A r \in editais : r.id # row.id
                \/ editais' \subseteq editais]_vars

\* Three rows were inserted and one of them was deleted: two rows stayed.
C23_Witness == Cardinality(editais) = 2 /\ next_id = 4

\* C24: once ultima_coleta is set, the only step after which it is absent is the
\* second transaction of limpar_banco, and after that step the table is empty.
C24_RunStateLifecycle ==
    [][(ultima_coleta # <<>> /\ ultima_coleta' = <<>>)
          => /\ pc["limpar_banco"] = "config" /\ pc'["limpar_banco"] = "idle"
             /\ editais' = {}]_vars

\* The title holds a numbering pattern, or the word edital or chamada.
TitleSignal(titulo) ==
    /\ titulo # NoTitle
    /\ \/ has_number_pattern(titulo)
       \/ InStr("edital", titulo)
       \/ InStr("chamada", titulo)

\* C25: is_likely_edital returns False for every title that holds neither a
\* numbering pattern nor the word edital or chamada, whatever the text holds.
C25_TitleSignalNecessary ==
    (Returned("is_likely_edital") /\ ~TitleSignal(hist[1].arg.titulo))
        => hist[2].ret = FALSE

\* A title without signal, a required term in it, and a text of 600 words with a
\* procedural term and an amount: rejected.
C25_Witness ==
    /\ Returned("is_likely_edital")
    /\ hist[1].arg.titulo = <<"fapesp", SP, "pesquisa">>
    /\ hist[1].arg.texto.words = 600
    /\ hist[1].arg.texto.first1000 = {"submissão"}
    /\ "r$" \in hist[1].arg.texto.first2000
    /\ hist[2].ret = FALSE

\* C25, for the table: no row stored by a run has a title without signal.
C25_StoredTitles == \A r \in editais : TitleSignal(r.titulo)

\* Both collectors have run, one after the other, over the same web.
BothRan == \A p \in Procs : pc[p] \in {"done", "raised"}

\* C26. Streaming and blocking runs are equivalent on the store: started from the
\* same store state and answered alike by the web and the clock, generate of
\* /coletar_stream and coletar_pdf_first insert the same records in the same
\* order, so count the same number of new records, and both reach their
\* set_ultima_coleta.
C26_StreamBlockingEquivalent ==
    BothRan =>
        /\ results["coletar"] = results["stream"]
        /\ \A p \in Procs : pc[p] = "done"

====
